---- MODULE Spec2Model ----
(***************************************************************************)
(* Stream framing and demultiplexing layer of docker/client.py:            *)
(*   Client._result, Client._get_raw_response_socket,                      *)
(*   Client._stream_helper, Client._multiplexed_buffer_helper,             *)
(*   Client._multiplexed_response_stream_helper and the join of attach.    *)
(* A behaviour is one response handed to one helper generator, the remote  *)
(* side delivering the body in chunks and the consumer pulling elements.   *)
(***************************************************************************)
EXTENDS Integers, Sequences, FiniteSets, TLC

VARIABLES
    helper,     \* which generator the response was handed to
    status,     \* response.status_code
    chunked,    \* response.raw._fp.chunked
    encoding,   \* response.encoding, used by response.text
    frames,     \* frames the daemon encoded into the body (ghost)
    tail,       \* bytes following the last complete frame (ghost)
    body,       \* all bytes of the response body
    pc,         \* position of the generator
    error,      \* exception that left the generator, "none" if none
    out,        \* elements yielded so far, in order
    result,     \* value of sep.join([...]) once the buffered run ended
    buf,        \* _multiplexed_buffer_helper: buf
    walker,     \* _multiplexed_buffer_helper: walker
    wire,       \* bytes the remote side has not delivered yet
    sockbuf,    \* bytes delivered and not yet read
    eof,        \* the remote side closed the connection
    timeout,    \* read timeout of the underlying socket
    length,     \* _multiplexed_response_stream_helper: length
    reads,      \* number of response.raw.read calls returned (ghost)
    parsed,     \* number of struct.unpack calls made (ghost)
    tchunks,    \* transfer chunks not yet read by _stream_helper
    pulls,      \* number of next() calls on the live generator (ghost)
    op,         \* the operation of Client that was called
    version,    \* self._version, as <<major, minor>>
    stream,     \* the stream argument of the call
    requests,   \* number of HTTP requests issued
    lines,      \* attach before 1.6: lines of iter_lines not yet yielded
    auth_configs, \* self._auth_configs: registry -> credentials
    cfgPath,    \* content of the config file at dockercfg_path
    cfgDefault, \* content of the default config file
    last,       \* arguments and outcome of the last login call (ghost)
    logins      \* number of login calls made (ghost)

\* the state of the calling layer
clientVars == <<op, version, stream, requests, lines, auth_configs, cfgPath,
                cfgDefault, last, logins>>

vars == <<helper, status, chunked, encoding, frames, tail, body, pc, error,
          out, result, buf, walker, wire, sockbuf, eof, timeout, length,
          reads, parsed, tchunks, pulls, clientVars>>

----------------------------------------------------------------------------
(* Bounds *)

MaxFrames == 2
MaxPayload == 2
MaxChunk == 3
MaxRaw == 3

(* Program constants *)

DEFAULT_TIMEOUT_SECONDS == 60
STREAM_HEADER_SIZE_BYTES == 8
\* settimeout(None): no read timeout
Unbounded == -1

----------------------------------------------------------------------------
(* Byte strings *)

Min(a, b) == IF a < b THEN a ELSE b

\* a slice that gives nothing when the end lies beyond the buffer
SliceStrict(b, s, e) == IF e > Len(b) THEN <<>> ELSE SubSeq(b, s + 1, e)

\* Python b[s:e] for 0 <= s, 0 <= e (0-based, end exclusive, clipped)
Slice(b, s, e) == SubSeq(b, s + 1, Min(e, Len(b)))

\* Python b[s:]
SliceFrom(b, s) == SubSeq(b, s + 1, Len(b))

RECURSIVE Join(_)
\* sep.join(list) with the empty separator
Join(l) == IF l = <<>> THEN <<>> ELSE Head(l) \o Join(Tail(l))

\* the length field read least significant byte first
UnpackLengthLittleEndian(h) == h[5] + h[6] * 256 + h[7] * 65536 + h[8] * 16777216

\* struct.unpack('>BxxxL', h)[1] for an 8-byte h: bytes 4..7, big-endian
UnpackLength(h) == h[5] * 16777216 + h[6] * 65536 + h[7] * 256 + h[8]

\* struct.unpack('>BxxxL', h)[0]: byte 0
UnpackTag(h) == h[1]

\* the wire encoding of a header: tag, 3 reserved bytes, length big-endian
Header(tag, len) ==
    <<tag, 0, 0, 0,
      (len \div 16777216) % 256, (len \div 65536) % 256,
      (len \div 256) % 256, len % 256>>

EncodeFrame(f) == Header(f.tag, Len(f.payload)) \o f.payload

RECURSIVE Encode(_)
Encode(fs) == IF fs = <<>> THEN <<>> ELSE EncodeFrame(Head(fs)) \o Encode(Tail(fs))

Payloads(fs) == [i \in 1..Len(fs) |-> fs[i].payload]

\* response.text: the body decoded with response.encoding, errors='replace'
Text(b, enc) ==
    [i \in 1..Len(b) |->
        IF enc = "utf-8" /\ b[i] >= 128 THEN 65533 ELSE b[i]]

----------------------------------------------------------------------------
(* Inputs *)

\* channel tags: 1 is stdout, 2 is stderr
Tags == {1, 2}
SeqsUpTo(S, n) == UNION {[1..k -> S] : k \in 0..n}
\* the byte a channel writes: "a" on stdout, "b" on stderr
ChannelByte(t) == 96 + t
\* frames of 0 to MaxPayload payload bytes on either channel
Frames ==
    {[tag |-> t, payload |-> [i \in 1..n |-> ChannelByte(t)]] :
        t \in Tags, n \in 0..MaxPayload}
FrameSeqs == SeqsUpTo(Frames, MaxFrames)

\* declared lengths of a frame cut off by the end of the body
TailLengths == {1, 2, 258}
\* a header followed by fewer payload bytes than it declares
TruncatedFrames ==
    UNION {{Header(1, n) \o [i \in 1..a |-> 97] : a \in 0..Min(n - 1, MaxPayload)} :
           n \in TailLengths}
\* what follows the last complete frame: nothing, a partial header, or a
\* complete header with fewer payload bytes than declared
Tails == UNION {{SubSeq(t, 1, k) : k \in 0..Len(t)} : t \in TruncatedFrames}

RawBodies == SeqsUpTo({97, 200}, MaxRaw)
Statuses == {200, 404}
\* response.raise_for_status() raises: a 4xx or 5xx status
IsError(s) == s >= 400

RECURSIVE SplitEvery(_, _)
\* the body as transfer chunks of n bytes, the last one possibly shorter
SplitEvery(b, n) ==
    IF b = <<>> THEN <<>>
    ELSE <<SubSeq(b, 1, Min(n, Len(b)))>> \o SplitEvery(SubSeq(b, n + 1, Len(b)), n)

----------------------------------------------------------------------------
(* The calling layer: versions and credentials *)

\* negotiated API versions, as <<major, minor>>
Versions == {<<1, 5>>, <<1, 6>>, <<1, 10>>, <<1, 14>>, <<1, 15>>, <<1, 16>>, <<1, 17>>}

\* utils.compare_version(v1, v2): 0 when equal, -1 when v2 is the older
\* version, 1 when v2 is the newer one; components compare as numbers
CompareVersion(v1, v2) ==
    IF v1 = v2 THEN 0
    ELSE IF v1[1] > v2[1] \/ (v1[1] = v2[1] /\ v1[2] > v2[2]) THEN -1
    ELSE 1

Registries == {"index", "quay"}
Usernames == {"ann", "bob"}
Passwords == {"pw1", "pw2"}
\* no credentials stored for a registry
NoEntry == [username |-> "none", password |-> "none", serveraddress |-> "none"]
\* req_data of login: the credentials submitted for a registry
ReqData(u, p, r) == [username |-> u, password |-> p, serveraddress |-> r]
\* the empty credential store
NoAuth == [r \in Registries |-> NoEntry]
\* contents a config file can have
ConfigFiles ==
    {NoAuth,
     [NoAuth EXCEPT !["index"] = ReqData("ann", "pw1", "index")],
     [NoAuth EXCEPT !["quay"] = ReqData("bob", "pw2", "quay")]}
\* no login call made yet
NoLogin ==
    [username |-> "none", password |-> "none", registry |-> "none",
     reauth |-> FALSE, path |-> FALSE, status |-> 0, hit |-> FALSE,
     returned |-> NoEntry, raised |-> FALSE]

\* the calling layer at rest: the helper is used directly
ClientIdle ==
    /\ op = "helper"
    /\ version = <<1, 17>>
    /\ stream = FALSE
    /\ requests = 0
    /\ lines = <<>>
    /\ auth_configs = NoAuth
    /\ cfgPath = NoAuth
    /\ cfgDefault = NoAuth
    /\ last = NoLogin
    /\ logins = 0

----------------------------------------------------------------------------
(* Initial states: one response, handed to one helper, nothing pulled yet *)

Helpers == {"buffer", "stream", "raw"}

InitMultiplexed ==
    /\ helper \in {"buffer", "stream"}
    /\ frames \in FrameSeqs
    /\ tail \in Tails
    /\ body = Encode(frames) \o tail
    /\ chunked = FALSE
    /\ encoding = "utf-8"
    /\ tchunks = <<>>

InitRaw ==
    /\ helper = "raw"
    /\ frames = <<>>
    /\ tail = <<>>
    /\ body \in RawBodies
    /\ chunked \in BOOLEAN
    /\ encoding \in {"utf-8", "latin-1"}
    /\ \E n \in 1..MaxChunk :
          tchunks = IF chunked THEN SplitEvery(body, n) ELSE <<>>

Init ==
    /\ InitMultiplexed \/ InitRaw
    /\ status \in Statuses
    /\ pc = "start"
    /\ error = "none"
    /\ out = <<>>
    /\ result = <<>>
    /\ buf = <<>>
    /\ walker = 0
    /\ wire = IF helper = "stream" THEN body ELSE <<>>
    /\ sockbuf = <<>>
    /\ eof = FALSE
    /\ timeout = DEFAULT_TIMEOUT_SECONDS
    /\ length = 0
    /\ reads = 0
    /\ parsed = 0
    /\ pulls = 0
    /\ ClientIdle

----------------------------------------------------------------------------
(* _multiplexed_buffer_helper, driven by sep.join([x for x in ...]) *)

RECURSIVE BufferedRun(_, _)
\* the elements the while loop yields on buffer b from position w
BufferedRun(b, w) ==
    IF Len(SliceFrom(b, w)) < 8
    THEN <<>>
    ELSE LET len == UnpackLength(SliceFrom(b, w))
             start == w + STREAM_HEADER_SIZE_BYTES
             end == start + len
         IN <<Slice(b, start, end)>> \o BufferedRun(b, end)

\* buf = self._result(response, binary=True); walker = 0
BufferStart ==
    /\ helper = "buffer"
    /\ UNCHANGED pulls
    /\ pc = "start"
    /\ IF IsError(status)
       THEN /\ pc' = "raised"
            /\ error' = "APIError"
            /\ UNCHANGED <<buf, walker>>
       ELSE /\ pc' = "loop"
            /\ buf' = body
            /\ walker' = 0
            /\ UNCHANGED error
    /\ UNCHANGED <<clientVars, helper, status, chunked, encoding, frames, tail, body, out,
                   result, wire, sockbuf, eof, timeout, length, reads, parsed,
                   tchunks>>

\* the loop with the bytes left after the last header flushed as an element
BufferStepFlush ==
    /\ helper = "buffer"
    /\ UNCHANGED pulls
    /\ pc = "loop"
    /\ IF Len(SliceFrom(buf, walker)) < 8
       THEN /\ pc' = "done"
            /\ out' = IF SliceFrom(buf, walker) = <<>> THEN out
                      ELSE Append(out, SliceFrom(buf, walker))
            /\ result' = Join(out')
            /\ UNCHANGED <<walker, parsed>>
       ELSE LET len == UnpackLength(SliceFrom(buf, walker))
                start == walker + STREAM_HEADER_SIZE_BYTES
                end == start + len
            IN /\ walker' = end
               /\ out' = Append(out, Slice(buf, start, end))
               /\ parsed' = parsed + 1
               /\ UNCHANGED <<pc, result>>
    /\ UNCHANGED <<clientVars, helper, status, chunked, encoding, frames, tail, body,
                   error, buf, wire, sockbuf, eof, timeout, length, reads,
                   tchunks>>

\* the loop with the cursor stopped at the end of the buffer
BufferStepClampWalker ==
    /\ helper = "buffer"
    /\ UNCHANGED pulls
    /\ pc = "loop"
    /\ IF Len(SliceFrom(buf, walker)) < 8
       THEN /\ pc' = "done"
            /\ result' = Join(out)
            /\ UNCHANGED <<walker, out, parsed>>
       ELSE LET len == UnpackLength(SliceFrom(buf, walker))
                start == walker + STREAM_HEADER_SIZE_BYTES
                end == start + len
            IN /\ walker' = Min(end, Len(buf))
               /\ out' = Append(out, Slice(buf, start, end))
               /\ parsed' = parsed + 1
               /\ UNCHANGED <<pc, result>>
    /\ UNCHANGED <<clientVars, helper, status, chunked, encoding, frames, tail, body,
                   error, buf, wire, sockbuf, eof, timeout, length, reads,
                   tchunks>>

\* the loop with the cursor advanced by the payload length only
BufferStepNoHeaderAdvance ==
    /\ helper = "buffer"
    /\ UNCHANGED pulls
    /\ pc = "loop"
    /\ IF Len(SliceFrom(buf, walker)) < 8
       THEN /\ pc' = "done"
            /\ result' = Join(out)
            /\ UNCHANGED <<walker, out, parsed>>
       ELSE LET len == UnpackLength(SliceFrom(buf, walker))
                start == walker + STREAM_HEADER_SIZE_BYTES
                end == start + len
            IN /\ walker' = walker + len
               /\ out' = Append(out, Slice(buf, start, end))
               /\ parsed' = parsed + 1
               /\ UNCHANGED <<pc, result>>
    /\ UNCHANGED <<clientVars, helper, status, chunked, encoding, frames, tail, body,
                   error, buf, wire, sockbuf, eof, timeout, length, reads,
                   tchunks>>

\* the loop with the channel tag put in front of each payload
BufferStepTagged ==
    /\ helper = "buffer"
    /\ UNCHANGED pulls
    /\ pc = "loop"
    /\ IF Len(SliceFrom(buf, walker)) < 8
       THEN /\ pc' = "done"
            /\ result' = Join(out)
            /\ UNCHANGED <<walker, out, parsed>>
       ELSE LET len == UnpackLength(SliceFrom(buf, walker))
                start == walker + STREAM_HEADER_SIZE_BYTES
                end == start + len
            IN /\ walker' = end
               /\ out' = Append(out, <<UnpackTag(SliceFrom(buf, walker))>> \o Slice(buf, start, end))
               /\ parsed' = parsed + 1
               /\ UNCHANGED <<pc, result>>
    /\ UNCHANGED <<clientVars, helper, status, chunked, encoding, frames, tail, body,
                   error, buf, wire, sockbuf, eof, timeout, length, reads,
                   tchunks>>

\* one iteration of the while loop; the break ends the generator and the join
BufferStep ==
    /\ helper = "buffer"
    /\ UNCHANGED pulls
    /\ pc = "loop"
    /\ IF Len(SliceFrom(buf, walker)) < 8
       THEN /\ pc' = "done"
            /\ result' = Join(out)
            /\ UNCHANGED <<walker, out, parsed>>
       ELSE LET len == UnpackLength(SliceFrom(buf, walker))
                start == walker + STREAM_HEADER_SIZE_BYTES
                end == start + len
            IN /\ walker' = end
               /\ out' = Append(out, Slice(buf, start, end))
               /\ parsed' = parsed + 1
               /\ UNCHANGED <<pc, result>>
    /\ UNCHANGED <<clientVars, helper, status, chunked, encoding, frames, tail, body,
                   error, buf, wire, sockbuf, eof, timeout, length, reads,
                   tchunks>>

----------------------------------------------------------------------------
(* The connection of a streaming response *)

\* the remote side delivers the next bytes, in chunks of its own choosing
Deliver ==
    /\ helper = "stream"
    /\ UNCHANGED pulls
    /\ wire # <<>>
    /\ \E k \in 1..Min(MaxChunk, Len(wire)) :
          /\ sockbuf' = sockbuf \o SubSeq(wire, 1, k)
          /\ wire' = SubSeq(wire, k + 1, Len(wire))
    /\ UNCHANGED <<clientVars, helper, status, chunked, encoding, frames, tail, body, pc,
                   error, out, result, buf, walker, eof, timeout, length,
                   reads, parsed, tchunks>>

\* the remote side closes the connection after its last byte
Close ==
    /\ helper = "stream"
    /\ UNCHANGED pulls
    /\ wire = <<>>
    /\ ~eof
    /\ eof' = TRUE
    /\ UNCHANGED <<clientVars, helper, status, chunked, encoding, frames, tail, body, pc,
                   error, out, result, buf, walker, wire, sockbuf, timeout,
                   length, reads, parsed, tchunks>>

\* a read that returns as soon as any byte is there
CanReadShort(n) == Len(sockbuf) >= 1 \/ eof

\* response.raw.read(n) can return: n bytes are there, or the stream ended
CanRead(n) == Len(sockbuf) >= n \/ eof

\* what response.raw.read(n) returns: n bytes, fewer only at the end
ReadBytes(n) == SubSeq(sockbuf, 1, Min(n, Len(sockbuf)))

----------------------------------------------------------------------------
(* _multiplexed_response_stream_helper *)

\* the start with the timeout disabled before the status is looked at
StreamStartTimeoutFirst ==
    /\ helper = "stream"
    /\ pulls' = pulls + 1
    /\ pc = "start"
    /\ timeout' = Unbounded
    /\ IF IsError(status)
       THEN /\ pc' = "raised"
            /\ error' = "APIError"
       ELSE /\ pc' = "read_header"
            /\ UNCHANGED error
    /\ UNCHANGED <<clientVars, helper, status, chunked, encoding, frames, tail, body, out,
                   result, buf, walker, wire, sockbuf, eof, length, reads,
                   parsed, tchunks>>

\* the start with the timeout of the request left in place
StreamStartKeepTimeout ==
    /\ helper = "stream"
    /\ pulls' = pulls + 1
    /\ pc = "start"
    /\ IF IsError(status)
       THEN /\ pc' = "raised"
            /\ error' = "APIError"
       ELSE /\ pc' = "read_header"
            /\ UNCHANGED error
    /\ UNCHANGED <<clientVars, helper, status, chunked, encoding, frames, tail, body, out,
                   result, buf, walker, wire, sockbuf, eof, timeout, length,
                   reads, parsed, tchunks>>

\* first pull: socket = self._get_raw_response_socket(response); settimeout(None)
StreamStart ==
    /\ helper = "stream"
    /\ pulls' = pulls + 1
    /\ pc = "start"
    /\ IF IsError(status)
       THEN /\ pc' = "raised"
            /\ error' = "APIError"
            /\ UNCHANGED timeout
       ELSE /\ pc' = "read_header"
            /\ timeout' = Unbounded
            /\ UNCHANGED error
    /\ UNCHANGED <<clientVars, helper, status, chunked, encoding, frames, tail, body, out,
                   result, buf, walker, wire, sockbuf, eof, length, reads,
                   parsed, tchunks>>

\* a header of length zero skipped instead of ending the sequence
AfterHeaderSkipEmpty(len) == IF len = 0 THEN "read_header" ELSE "read_data"

\* if not length: break
AfterHeader(len) == IF len = 0 THEN "done" ELSE "read_data"

\* a header that is never taken for the end of the stream
NoHeaderNever(header) == FALSE

\* if not header: break
NoHeader(header) == header = <<>>

\* header = response.raw.read(8) and the decoding of the header
StreamReadHeader ==
    /\ helper = "stream"
    /\ UNCHANGED pulls
    /\ pc = "read_header"
    /\ CanRead(STREAM_HEADER_SIZE_BYTES)
    /\ LET header == ReadBytes(STREAM_HEADER_SIZE_BYTES)
       IN /\ sockbuf' = SubSeq(sockbuf, Len(header) + 1, Len(sockbuf))
          /\ reads' = reads + 1
          /\ IF NoHeader(header)
             THEN /\ pc' = "done"
                  /\ UNCHANGED <<error, length, parsed>>
             ELSE /\ parsed' = parsed + 1
                  /\ IF Len(header) # 8
                     THEN \* struct.unpack needs exactly 8 bytes
                          /\ pc' = "raised"
                          /\ error' = "struct.error"
                          /\ UNCHANGED length
                     ELSE /\ length' = UnpackLength(header)
                          /\ pc' = AfterHeader(UnpackLength(header))
                          /\ UNCHANGED error
    /\ UNCHANGED <<clientVars, helper, status, chunked, encoding, frames, tail, body, out,
                   result, buf, walker, wire, eof, timeout, tchunks>>

\* the payload read with the generator running on without a pull
StreamReadDataEager ==
    /\ helper = "stream"
    /\ UNCHANGED pulls
    /\ pc = "read_data"
    /\ CanRead(length)
    /\ LET data == ReadBytes(length)
       IN /\ sockbuf' = SubSeq(sockbuf, Len(data) + 1, Len(sockbuf))
          /\ reads' = reads + 1
          /\ IF data = <<>>
             THEN /\ pc' = "done"
                  /\ UNCHANGED out
             ELSE /\ pc' = "read_header"
                  /\ out' = Append(out, data)
    /\ UNCHANGED <<clientVars, helper, status, chunked, encoding, frames, tail, body,
                   error, result, buf, walker, wire, eof, timeout, length,
                   parsed, tchunks>>

\* data = response.raw.read(length); yield data
StreamReadData ==
    /\ helper = "stream"
    /\ UNCHANGED pulls
    /\ pc = "read_data"
    /\ CanRead(length)
    /\ LET data == ReadBytes(length)
       IN /\ sockbuf' = SubSeq(sockbuf, Len(data) + 1, Len(sockbuf))
          /\ reads' = reads + 1
          /\ IF data = <<>>
             THEN /\ pc' = "done"
                  /\ UNCHANGED out
             ELSE /\ pc' = "yielded"
                  /\ out' = Append(out, data)
    /\ UNCHANGED <<clientVars, helper, status, chunked, encoding, frames, tail, body,
                   error, result, buf, walker, wire, eof, timeout, length,
                   parsed, tchunks>>

\* the consumer pulls the next element: the generator resumes after the yield
StreamNext ==
    /\ helper = "stream"
    /\ pulls' = pulls + 1
    /\ pc = "yielded"
    /\ pc' = "read_header"
    /\ UNCHANGED <<clientVars, helper, status, chunked, encoding, frames, tail, body,
                   error, out, result, buf, walker, wire, sockbuf, eof,
                   timeout, length, reads, parsed, tchunks>>

----------------------------------------------------------------------------
(* _stream_helper *)

\* the else branch yielding the body whatever the status
RawStartNoRaise ==
    /\ helper = "raw"
    /\ UNCHANGED pulls
    /\ pc = "start"
    /\ IF chunked
       THEN /\ pc' = "raw_loop"
            /\ UNCHANGED out
       ELSE /\ pc' = "raw_yielded"
            /\ out' = <<Text(body, encoding)>>
    /\ UNCHANGED <<clientVars, helper, status, chunked, encoding, frames, tail, body,
                   error, result, buf, walker, wire, sockbuf, eof, timeout,
                   length, reads, parsed, tchunks>>

\* first pull: the test of response.raw._fp.chunked and the else branch
RawStart ==
    /\ helper = "raw"
    /\ UNCHANGED pulls
    /\ pc = "start"
    /\ IF chunked
       THEN /\ pc' = "raw_loop"
            /\ UNCHANGED <<error, out>>
       ELSE IF IsError(status)
            THEN \* self._result(response) raises before the yield
                 /\ pc' = "raised"
                 /\ error' = "APIError"
                 /\ UNCHANGED out
            ELSE /\ pc' = "raw_yielded"
                 /\ out' = <<Text(body, encoding)>>
                 /\ UNCHANGED error
    /\ UNCHANGED <<clientVars, helper, status, chunked, encoding, frames, tail, body,
                   result, buf, walker, wire, sockbuf, eof, timeout, length,
                   reads, parsed, tchunks>>

\* the loop yielding the leading byte without the rest of the chunk
RawChunkedStepLeadingByte ==
    /\ helper = "raw"
    /\ UNCHANGED pulls
    /\ pc = "raw_loop"
    /\ IF tchunks = <<>>
       THEN /\ pc' = "done"
            /\ UNCHANGED <<out, tchunks>>
       ELSE /\ out' = Append(out, SubSeq(Head(tchunks), 1, 1))
            /\ tchunks' = Tail(tchunks)
            /\ UNCHANGED pc
    /\ UNCHANGED <<clientVars, helper, status, chunked, encoding, frames, tail, body,
                   error, result, buf, walker, wire, sockbuf, eof, timeout,
                   length, reads, parsed>>

\* one iteration of the while loop over the chunked reader
RawChunkedStep ==
    /\ helper = "raw"
    /\ UNCHANGED pulls
    /\ pc = "raw_loop"
    /\ IF tchunks = <<>>
       THEN \* the reader is closed, or read(1) returned nothing
            /\ pc' = "done"
            /\ UNCHANGED <<out, tchunks>>
       ELSE LET chunk == Head(tchunks)
                first == SubSeq(chunk, 1, 1)
                chunk_left == Len(chunk) - 1
                data == IF chunk_left # 0
                        THEN first \o SubSeq(chunk, 2, 1 + chunk_left)
                        ELSE first
            IN /\ out' = Append(out, data)
               /\ tchunks' = Tail(tchunks)
               /\ UNCHANGED pc
    /\ UNCHANGED <<clientVars, helper, status, chunked, encoding, frames, tail, body,
                   error, result, buf, walker, wire, sockbuf, eof, timeout,
                   length, reads, parsed>>

\* the pull after the only element of a response that is not chunked
RawFinish ==
    /\ helper = "raw"
    /\ UNCHANGED pulls
    /\ pc = "raw_yielded"
    /\ pc' = "done"
    /\ UNCHANGED <<clientVars, helper, status, chunked, encoding, frames, tail, body,
                   error, out, result, buf, walker, wire, sockbuf, eof,
                   timeout, length, reads, parsed, tchunks>>

----------------------------------------------------------------------------

Next ==
    \/ BufferStart
    \/ BufferStep
    \/ Deliver
    \/ Close
    \/ StreamStart
    \/ StreamReadHeader
    \/ StreamReadData
    \/ StreamNext
    \/ RawStart
    \/ RawChunkedStep
    \/ RawFinish

Spec == Init /\ [][Next]_vars

\* the code runs, the consumer keeps pulling, and the remote side sends
\* what it has and closes
Fairness ==
    /\ WF_vars(BufferStart) /\ WF_vars(BufferStep)
    /\ WF_vars(Deliver) /\ WF_vars(Close)
    /\ WF_vars(StreamStart) /\ WF_vars(StreamReadHeader)
    /\ WF_vars(StreamReadData) /\ WF_vars(StreamNext)
    /\ WF_vars(RawStart) /\ WF_vars(RawChunkedStep) /\ WF_vars(RawFinish)

\* the channel of a frame is read and dropped (its value steers nothing in
\* either loop), so the runs to completion are taken over one channel
InitFair ==
    /\ Init
    /\ \A i \in 1..Len(frames) : frames[i].tag = 1

SpecFair == InitFair /\ [][Next]_vars /\ Fairness

----------------------------------------------------------------------------
(* The operations of Client that hand a response to a helper *)

MaxClientFrames == 1

\* responses to a multiplexed call: complete frames, then nothing or a
\* partial header
ClientFrameSeqs == SeqsUpTo(Frames, MaxClientFrames)
ClientTails == {<<>>, <<1, 0>>}
\* responses of a daemon older than 1.6: plain text, or bytes that look like
\* a frame
LegacyBodies == SeqsUpTo({97, 10}, MaxRaw) \cup {EncodeFrame([tag |-> 1, payload |-> <<97>>])}

\* the client after construction, no operation called yet
InitClient ==
    /\ version \in Versions
    /\ op = "none"
    /\ helper = "none"
    /\ pc = "call"
    /\ stream = FALSE
    /\ requests = 0
    /\ status = 0
    /\ chunked = FALSE
    /\ encoding = "utf-8"
    /\ frames = <<>>
    /\ tail = <<>>
    /\ body = <<>>
    /\ error = "none"
    /\ out = <<>>
    /\ result = <<>>
    /\ buf = <<>>
    /\ walker = 0
    /\ wire = <<>>
    /\ sockbuf = <<>>
    /\ eof = FALSE
    /\ timeout = DEFAULT_TIMEOUT_SECONDS
    /\ length = 0
    /\ reads = 0
    /\ parsed = 0
    /\ tchunks = <<>>
    /\ pulls = 0
    /\ lines = <<>>
    /\ auth_configs = NoAuth
    /\ cfgPath = NoAuth
    /\ cfgDefault = NoAuth
    /\ last = NoLogin
    /\ logins = 0

\* what no call changes: the generator has not run, no credentials involved
CallFrame ==
    UNCHANGED <<version, out, buf, walker, sockbuf, eof, timeout, length,
                reads, parsed, pulls, lines, auth_configs, cfgPath,
                cfgDefault, last, logins>>

\* the call raises before a response exists
RaiseInCall(e) ==
    /\ pc' = "raised"
    /\ error' = e
    /\ UNCHANGED <<helper, status, chunked, encoding, frames, tail, body,
                   result, wire, tchunks>>

\* a multiplexed response arrives
MultiplexedResponse ==
    /\ frames' \in ClientFrameSeqs
    /\ tail' \in ClientTails
    /\ body' = Encode(frames') \o tail'
    /\ chunked' = FALSE
    /\ encoding' = "utf-8"
    /\ tchunks' = <<>>

\* a response without frames arrives
PlainResponse(bodies) ==
    /\ frames' = <<>>
    /\ tail' = <<>>
    /\ body' \in bodies
    /\ encoding' \in {"utf-8", "latin-1"}

\* utils.compare_version('1.6', self._version) < 0, with 1.10 read as 1.1
LegacyAttachDecimal(v) ==
    v[1] < 1 \/ (v[1] = 1 /\ (IF v[2] < 10 THEN 10 * v[2] ELSE v[2]) < 60)

\* utils.compare_version('1.6', self._version) < 0
LegacyAttach(v) == CompareVersion(<<1, 6>>, v) < 0

\* attach with old-style streaming done by _stream_helper
AttachHelperRaw(v, s) ==
    IF LegacyAttach(v)
    THEN (IF s THEN "raw" ELSE "result")
    ELSE (IF s THEN "stream" ELSE "buffer")

\* what attach returns: stream_result() or _result before 1.6, the live
\* helper or the join over the buffered helper from 1.6 on
AttachHelper(v, s) ==
    IF LegacyAttach(v)
    THEN (IF s THEN "lines" ELSE "result")
    ELSE (IF s THEN "stream" ELSE "buffer")

\* Client.attach
Attach ==
    /\ pc = "call"
    /\ op' = "attach"
    /\ stream' \in BOOLEAN
    /\ requests' = requests + 1
    /\ status' \in Statuses
    /\ helper' = AttachHelper(version, stream')
    /\ IF LegacyAttach(version)
       THEN /\ PlainResponse(LegacyBodies)
            /\ chunked' = FALSE
            /\ tchunks' = <<>>
       ELSE MultiplexedResponse
    /\ wire' = IF helper' = "stream" THEN body' ELSE <<>>
    /\ IF helper' = "result"
       THEN \* return self._result(response, binary=True)
            IF IsError(status')
            THEN /\ pc' = "raised"
                 /\ error' = "APIError"
                 /\ UNCHANGED result
            ELSE /\ pc' = "done"
                 /\ result' = body'
                 /\ UNCHANGED error
       ELSE /\ pc' = "start"
            /\ UNCHANGED <<error, result>>
    /\ CallFrame

\* the exec gate with the threshold one version too low
ExecUnsupportedOld(v) == CompareVersion(<<1, 14>>, v) < 0

\* utils.compare_version('1.15', self._version) < 0
ExecUnsupported(v) == CompareVersion(<<1, 15>>, v) < 0

\* Client.execute
Execute ==
    /\ pc = "call"
    /\ op' = "execute"
    /\ stream' \in BOOLEAN
    /\ IF ExecUnsupported(version)
       THEN /\ RaiseInCall("InvalidVersion")
            /\ UNCHANGED requests
       ELSE \E created \in Statuses :
               IF IsError(created)
               THEN \* the request that creates the command failed
                    /\ requests' = requests + 1
                    /\ pc' = "raised"
                    /\ error' = "APIError"
                    /\ status' = created
                    /\ UNCHANGED <<helper, chunked, encoding, frames, tail,
                                   body, result, wire, tchunks>>
               ELSE /\ requests' = requests + 2
                    /\ status' \in Statuses
                    /\ MultiplexedResponse
                    /\ UNCHANGED result
                    /\ IF IsError(status')
                       THEN /\ pc' = "raised"
                            /\ error' = "APIError"
                            /\ UNCHANGED <<helper, wire>>
                       ELSE /\ pc' = "start"
                            /\ helper' = IF stream' THEN "stream" ELSE "buffer"
                            /\ wire' = IF stream' THEN body' ELSE <<>>
                            /\ UNCHANGED error
    /\ CallFrame

\* the stats gate with the threshold one version too low
StatsUnsupportedOld(v) == CompareVersion(<<1, 16>>, v) < 0

\* utils.compare_version('1.17', self._version) < 0 in stats
StatsUnsupported(v) == CompareVersion(<<1, 17>>, v) < 0

\* Client.stats
Stats ==
    /\ pc = "call"
    /\ op' = "stats"
    /\ stream' = TRUE
    /\ IF StatsUnsupported(version)
       THEN /\ RaiseInCall("InvalidVersion")
            /\ UNCHANGED requests
       ELSE /\ requests' = requests + 1
            /\ status' \in Statuses
            /\ PlainResponse(RawBodies)
            /\ chunked' \in BOOLEAN
            /\ \E n \in 1..MaxChunk :
                  tchunks' = IF chunked' THEN SplitEvery(body', n) ELSE <<>>
            /\ helper' = "raw"
            /\ pc' = "start"
            /\ UNCHANGED <<error, result, wire>>
    /\ CallFrame

\* utils.compare_version('1.17', self._version) < 0 in rename
RenameUnsupported(v) == CompareVersion(<<1, 17>>, v) < 0

\* Client.rename
Rename ==
    /\ pc = "call"
    /\ op' = "rename"
    /\ stream' = FALSE
    /\ IF RenameUnsupported(version)
       THEN /\ RaiseInCall("InvalidVersion")
            /\ UNCHANGED requests
       ELSE /\ requests' = requests + 1
            /\ status' \in Statuses
            /\ pc' = IF IsError(status') THEN "raised" ELSE "done"
            /\ error' = IF IsError(status') THEN "APIError" ELSE "none"
            /\ UNCHANGED <<helper, chunked, encoding, frames, tail, body,
                           result, wire, tchunks>>
    /\ CallFrame

RECURSIVE SplitLines(_)
\* str.splitlines on line feeds: the pieces between them, none after the last
SplitLines(b) ==
    IF b = <<>> THEN <<>>
    ELSE IF \E i \in 1..Len(b) : b[i] = 10
         THEN LET i == CHOOSE i \in 1..Len(b) :
                           b[i] = 10 /\ \A j \in 1..(i - 1) : b[j] # 10
              IN <<SubSeq(b, 1, i - 1)>> \o SplitLines(SubSeq(b, i + 1, Len(b)))
         ELSE <<b>>

RECURSIVE DropEmpty(_)
\* the lines from the first one that is not empty
DropEmpty(l) ==
    IF l = <<>> THEN <<>>
    ELSE IF Head(l) = <<>> THEN DropEmpty(Tail(l)) ELSE l

\* stream_result of attach: self._raise_for_status(response), then iter_lines
LinesStart ==
    /\ helper = "lines"
    /\ pc = "start"
    /\ IF IsError(status)
       THEN /\ pc' = "raised"
            /\ error' = "APIError"
            /\ UNCHANGED lines
       ELSE /\ pc' = "lines_loop"
            /\ lines' = SplitLines(Text(body, encoding))
            /\ UNCHANGED error
    /\ UNCHANGED <<helper, status, chunked, encoding, frames, tail, body, out,
                   result, buf, walker, wire, sockbuf, eof, timeout, length,
                   reads, parsed, tchunks, pulls, op, version, stream,
                   requests, auth_configs, cfgPath, cfgDefault, last, logins>>

\* stream_result of attach: the for loop up to the next line that is yielded
LinesStep ==
    /\ helper = "lines"
    /\ pc = "lines_loop"
    /\ IF DropEmpty(lines) = <<>>
       THEN /\ pc' = "done"
            /\ lines' = <<>>
            /\ UNCHANGED out
       ELSE /\ out' = Append(out, Head(DropEmpty(lines)))
            /\ lines' = Tail(DropEmpty(lines))
            /\ UNCHANGED pc
    /\ UNCHANGED <<helper, status, chunked, encoding, frames, tail, body,
                   error, result, buf, walker, wire, sockbuf, eof, timeout,
                   length, reads, parsed, tchunks, pulls, op, version, stream,
                   requests, auth_configs, cfgPath, cfgDefault, last, logins>>

NextClient ==
    \/ Attach
    \/ Execute
    \/ Stats
    \/ Rename
    \/ LinesStart
    \/ LinesStep
    \/ BufferStart
    \/ BufferStep
    \/ Deliver
    \/ Close
    \/ StreamStart
    \/ StreamReadHeader
    \/ StreamReadData
    \/ StreamNext
    \/ RawStart
    \/ RawChunkedStep
    \/ RawFinish

SpecClient == InitClient /\ [][NextClient]_vars

----------------------------------------------------------------------------
(* Client.login and the credential store *)

MaxLogins == 2

\* statuses the daemon answers /auth with
LoginStatuses == {200, 204, 401}
\* the registry argument: None, or the address of a registry
RegistryArgs == {"None", "quay"}

\* auth.expand_registry_url(registry) if registry else auth.INDEX_URL
ResolveRegistry(r) == IF r = "None" THEN "index" ELSE r

\* auth.resolve_authconfig(self._auth_configs, registry)
ResolveAuthconfig(configs, registry) == configs[registry]

\* the reload at the start of login: the file at dockercfg_path when one is
\* passed and exists, the default file when nothing is stored yet
LoadConfig(configs, path) ==
    IF path THEN cfgPath
    ELSE IF configs = NoAuth THEN cfgDefault
    ELSE configs

\* the stored credentials found for any username
CacheHitAnyUser(authcfg, username, reauth) == authcfg # NoEntry /\ ~reauth

\* authcfg and authcfg.get('username', None) == username and not reauth
CacheHit(authcfg, username, reauth) ==
    authcfg # NoEntry /\ authcfg.username = username /\ ~reauth

\* the submitted credentials stored whatever the status
StoredAlways(configs, st, registry, req_data) ==
    [configs EXCEPT ![registry] = req_data]

\* if response.status_code == 200: self._auth_configs[registry] = req_data
Stored(configs, st, registry, req_data) ==
    IF st = 200 THEN [configs EXCEPT ![registry] = req_data] ELSE configs

\* the client after construction: self._auth_configs = auth.load_config()
InitLogin ==
    /\ cfgDefault \in ConfigFiles
    /\ cfgPath \in ConfigFiles
    /\ auth_configs = cfgDefault
    /\ last = NoLogin
    /\ logins = 0
    /\ requests = 0
    /\ op = "none"
    /\ version = <<1, 17>>
    /\ stream = FALSE
    /\ lines = <<>>
    /\ helper = "none"
    /\ pc = "call"
    /\ status = 0
    /\ chunked = FALSE
    /\ encoding = "utf-8"
    /\ frames = <<>>
    /\ tail = <<>>
    /\ body = <<>>
    /\ error = "none"
    /\ out = <<>>
    /\ result = <<>>
    /\ buf = <<>>
    /\ walker = 0
    /\ wire = <<>>
    /\ sockbuf = <<>>
    /\ eof = FALSE
    /\ timeout = DEFAULT_TIMEOUT_SECONDS
    /\ length = 0
    /\ reads = 0
    /\ parsed = 0
    /\ tchunks = <<>>
    /\ pulls = 0

\* Client.login
Login ==
    /\ pc = "call"
    /\ logins < MaxLogins
    /\ logins' = logins + 1
    /\ op' = "login"
    /\ \E username \in Usernames, password \in Passwords,
          arg \in RegistryArgs, reauth \in BOOLEAN, path \in BOOLEAN :
          LET loaded == LoadConfig(auth_configs, path)
              registry == ResolveRegistry(arg)
              authcfg == ResolveAuthconfig(loaded, registry)
              req_data == ReqData(username, password, registry)
              call == [username |-> username, password |-> password,
                       registry |-> registry, reauth |-> reauth,
                       path |-> path]
          IN IF CacheHit(authcfg, username, reauth)
             THEN /\ auth_configs' = loaded
                  /\ last' = call @@ [status |-> 0, hit |-> TRUE,
                                      returned |-> authcfg, raised |-> FALSE]
                  /\ UNCHANGED <<requests, status, error>>
             ELSE \E st \in LoginStatuses :
                     /\ requests' = requests + 1
                     /\ status' = st
                     /\ auth_configs' = Stored(loaded, st, registry, req_data)
                     /\ error' = IF IsError(st) THEN "APIError" ELSE "none"
                     /\ last' = call @@ [status |-> st, hit |-> FALSE,
                                         returned |-> NoEntry,
                                         raised |-> IsError(st)]
    /\ UNCHANGED <<helper, chunked, encoding, frames, tail, body, pc, out,
                   result, buf, walker, wire, sockbuf, eof, timeout, length,
                   reads, parsed, tchunks, pulls, version, stream, lines,
                   cfgPath, cfgDefault>>

\* something shows up in the default config file between two calls
WriteConfig ==
    /\ pc = "call"
    /\ logins < MaxLogins
    /\ cfgDefault' \in ConfigFiles \ {cfgDefault}
    /\ UNCHANGED <<helper, status, chunked, encoding, frames, tail, body, pc,
                   error, out, result, buf, walker, wire, sockbuf, eof,
                   timeout, length, reads, parsed, tchunks, pulls, op,
                   version, stream, requests, lines, auth_configs, cfgPath,
                   last, logins>>

NextLogin ==
    \/ Login
    \/ WriteConfig

SpecLogin == InitLogin /\ [][NextLogin]_vars

----------------------------------------------------------------------------
(* Properties *)

IsPrefix(a, b) == Len(a) <= Len(b) /\ a = SubSeq(b, 1, Len(a))

\* the response has a success status and went to the buffered demultiplexer
BufferedOk == helper = "buffer" /\ status = 200

\* the response has a success status and went to the live demultiplexer
LiveOk == helper = "stream" /\ status = 200

NoEmptyFrame == \A i \in 1..Len(frames) : frames[i].payload # <<>>

\* C1: on the encoding of complete frames F1..Fn (empty payloads included)
\* the buffered demultiplexer yields payload(F1), ..., payload(Fn) in order,
\* and the joined result of the call is their concatenation.
C1_BufferedYieldsPayloads ==
    (BufferedOk /\ tail = <<>>) =>
        /\ error = "none"
        /\ IsPrefix(out, Payloads(frames))
        /\ pc = "done" => /\ out = Payloads(frames)
                          /\ result = Join(Payloads(frames))

C1_Witness ==
    /\ BufferedOk /\ tail = <<>> /\ pc = "done"
    /\ Len(frames) = 2
    /\ frames[1].payload = <<>>
    /\ frames[1].tag = 1
    /\ frames[2] = [tag |-> 2, payload |-> <<98, 98>>]
    /\ out = <<<<>>, <<98, 98>>>>
    /\ result = <<98, 98>>

\* C2: when no frame is empty and nothing is cut off, the elements of the
\* live demultiplexer are, whatever chunks the connection delivers, the
\* per-frame payloads the buffered demultiplexer yields on the whole body.
C2_LiveEqualsBuffered ==
    (LiveOk /\ tail = <<>> /\ NoEmptyFrame) =>
        /\ error = "none"
        /\ IsPrefix(out, BufferedRun(body, 0))
        /\ pc = "done" => out = BufferedRun(body, 0)

C2_Witness ==
    /\ LiveOk /\ tail = <<>> /\ NoEmptyFrame /\ pc = "done"
    /\ Len(frames) = 2
    /\ Len(frames[1].payload) = 1
    /\ Len(frames[2].payload) = 2
    /\ Len(out) = 2

\* index of the first frame with an empty payload, 0 if there is none
FirstEmpty ==
    IF NoEmptyFrame THEN 0
    ELSE CHOOSE i \in 1..Len(frames) :
            /\ frames[i].payload = <<>>
            /\ \A j \in 1..(i - 1) : frames[j].payload # <<>>

\* C3: once the live demultiplexer has read a header of length 0 it yields
\* nothing more, also when valid frames follow: the elements are exactly the
\* payloads of the frames before the first empty frame.
C3_LiveStopsAtEmptyFrame ==
    (LiveOk /\ ~NoEmptyFrame) =>
        /\ IsPrefix(out, Payloads(SubSeq(frames, 1, FirstEmpty - 1)))
        /\ pc \in {"done", "raised"} =>
              /\ pc = "done"
              /\ out = Payloads(SubSeq(frames, 1, FirstEmpty - 1))

C3_Witness ==
    /\ LiveOk /\ pc = "done"
    /\ Len(frames) = 2
    /\ frames[1].payload = <<>>
    /\ frames[2].payload # <<>>
    /\ wire = <<>>
    /\ Len(sockbuf) > STREAM_HEADER_SIZE_BYTES
    /\ out = <<>>

\* C4: a partial header of 1 to 7 bytes after complete frames leaves the
\* result of the buffered demultiplexer as it is without it, with no error.
C4_PartialHeaderDropped ==
    (BufferedOk /\ Len(tail) \in 1..7) =>
        /\ error = "none"
        /\ pc = "done" => /\ out = BufferedRun(Encode(frames), 0)
                          /\ result = Join(BufferedRun(Encode(frames), 0))

C4_Witness ==
    /\ BufferedOk /\ pc = "done"
    /\ Len(tail) = 7
    /\ Len(frames) = 2
    /\ Len(out) = 2
    /\ result # <<>>

\* the payload bytes present after the header of the frame that is cut off
TailPayload == SubSeq(tail, STREAM_HEADER_SIZE_BYTES + 1, Len(tail))

\* C5, as stated: a complete header with fewer payload bytes than declared,
\* after complete frames, leaves the joined result of the buffered
\* demultiplexer as it is without that tail.
C5_PartialPayloadDropped ==
    (BufferedOk /\ Len(tail) >= STREAM_HEADER_SIZE_BYTES /\ pc = "done") =>
        result = Join(BufferedRun(Encode(frames), 0))

\* C5, amended: such a tail raises no error and adds one last element, the
\* payload bytes that are present, after the payloads of the complete
\* frames; the joined result ends with those bytes.
C5_PartialPayloadYielded ==
    (BufferedOk /\ Len(tail) >= STREAM_HEADER_SIZE_BYTES) =>
        /\ error = "none"
        /\ pc = "done" => /\ out = Append(Payloads(frames), TailPayload)
                          /\ result = Join(Payloads(frames)) \o TailPayload

C5_Witness ==
    /\ BufferedOk /\ pc = "done"
    /\ Len(frames) = 2
    /\ Len(tail) = STREAM_HEADER_SIZE_BYTES + 1
    /\ UnpackLength(tail) = 258
    /\ out[3] = <<97>>

\* C6, as stated: the live demultiplexer raises no error when the connection
\* closes inside a header or inside a payload; the sequence just ends.
C6_TruncationNeverRaised ==
    (LiveOk /\ tail # <<>>) => (error = "none" /\ pc # "raised")

\* C7: on a non-success status both demultiplexers raise the transport
\* error before any frame is parsed: no header is decoded, no element is
\* yielded, and the live path neither changes the timeout nor reads.
C7_ErrorStatusRaisedBeforeFraming ==
    (helper \in {"buffer", "stream"} /\ status # 200) =>
        /\ pc \in {"start", "raised"}
        /\ pc = "raised" => error = "APIError"
        /\ parsed = 0
        /\ out = <<>>
        /\ result = <<>>
        /\ reads = 0
        /\ timeout = DEFAULT_TIMEOUT_SECONDS

C7_Witness ==
    /\ helper = "stream" /\ status = 404
    /\ pc = "raised" /\ error = "APIError"
    /\ Len(body) >= STREAM_HEADER_SIZE_BYTES
    /\ sockbuf = body
    /\ eof

\* C8, as stated: on a response that is not chunked the raw reader yields
\* exactly one element, the materialized body, and ends.
C8_NotChunkedYieldsBody ==
    (helper = "raw" /\ ~chunked /\ pc # "start") =>
        /\ error = "none"
        /\ out = <<body>>

\* C8, amended: on a response that is not chunked the raw reader, when the
\* status is a success, yields exactly one element, the body decoded as text,
\* and ends; when it is not, it raises the transport error and yields nothing.
C8_NotChunkedYieldsTextOrRaises ==
    (helper = "raw" /\ ~chunked) =>
        /\ pc \in {"start", "raw_yielded", "done", "raised"}
        /\ pc = "start" => out = <<>>
        /\ (status = 200 /\ pc # "start") =>
              /\ pc \in {"raw_yielded", "done"}
              /\ error = "none"
              /\ out = <<[i \in 1..Len(body) |->
                            IF encoding = "utf-8" /\ body[i] >= 128
                            THEN 65533 ELSE body[i]]>>
        /\ (status # 200 /\ pc # "start") =>
              /\ pc = "raised"
              /\ error = "APIError"
              /\ out = <<>>

C8_Witness ==
    /\ helper = "raw" /\ ~chunked /\ status = 200 /\ pc = "done"
    /\ encoding = "utf-8"
    /\ body = <<97, 200>>
    /\ out = <<<<97, 65533>>>>

\* C9: an empty body gives an empty result in both modes and no error: the
\* buffered demultiplexer yields nothing and its joined result is empty, the
\* live demultiplexer ends without an element.
C9_EmptyBodyEmptyResult ==
    (helper \in {"buffer", "stream"} /\ status = 200 /\ body = <<>>) =>
        /\ error = "none"
        /\ pc # "raised"
        /\ out = <<>>
        /\ result = <<>>
        /\ (helper = "stream" /\ reads > 0) => pc = "done"
        /\ (helper = "buffer" /\ pc # "start") => (pc \in {"loop", "done"} /\ parsed = 0)

C9_Witness ==
    /\ LiveOk /\ body = <<>> /\ eof
    /\ pc = "done" /\ reads = 1 /\ out = <<>>

\* C10: every read of the live demultiplexer on the connection happens with
\* the read timeout unbounded, and once unbounded the timeout is never set
\* back, neither while the sequence is consumed nor after it ended.
C10_ReadsWithoutTimeout ==
    [][/\ reads' # reads => (timeout = Unbounded /\ timeout' = Unbounded)
       /\ timeout = Unbounded => timeout' = Unbounded]_vars

C10_Witness ==
    /\ LiveOk /\ pc = "done"
    /\ reads >= 3
    /\ timeout = Unbounded

\* C13, as stated: every element of the live demultiplexer has exactly the
\* length its header declares.
C13_ElementHasDeclaredLength ==
    (LiveOk /\ pc = "yielded") => Len(out[Len(out)]) = length

\* the payloads in the order they arrive, the cut-off one included
ArrivalPayloads ==
    Payloads(frames) \o
        (IF Len(tail) > STREAM_HEADER_SIZE_BYTES THEN <<TailPayload>> ELSE <<>>)

\* C14: in the buffered demultiplexer a frame that declares more bytes than
\* the buffer holds yields the bytes that are there, the cursor still moves
\* to the end of the declared span, nothing is yielded after it, no error.
C14_TruncatedFrameAdvancesCursor ==
    (BufferedOk /\ Len(tail) >= STREAM_HEADER_SIZE_BYTES
        /\ parsed = Len(frames) + 1) =>
        /\ error = "none"
        /\ walker = Len(Encode(frames)) + STREAM_HEADER_SIZE_BYTES + UnpackLength(tail)
        /\ walker > Len(buf)
        /\ Len(out) = Len(frames) + 1
        /\ out[Len(out)] = TailPayload
        /\ Len(TailPayload) < UnpackLength(tail)

C14_Witness ==
    /\ BufferedOk /\ pc = "done"
    /\ Len(frames) = 1
    /\ Len(tail) = STREAM_HEADER_SIZE_BYTES + 2
    /\ UnpackLength(tail) = 258
    /\ walker = Len(buf) + 256
    /\ out[2] = <<97, 97>>

\* bytes the generator has taken from the connection
Consumed == Len(body) - Len(sockbuf) - Len(wire)

\* C15: the live demultiplexer is pull-driven and holds at most one frame:
\* nothing is read before the first pull, a pull reads at most one header
\* and the payload of that frame, and the elements come in arrival order.
C15_LivePullDriven ==
    LiveOk =>
        /\ pulls = 0 => (reads = 0 /\ Consumed = 0 /\ out = <<>>)
        /\ reads <= 2 * pulls
        /\ Len(out) <= pulls
        /\ Consumed <= STREAM_HEADER_SIZE_BYTES * pulls + Len(Join(out))
        /\ IsPrefix(out, ArrivalPayloads)

C15_Witness ==
    /\ LiveOk /\ pc = "yielded"
    /\ pulls = 1 /\ reads = 2
    /\ Len(frames) = 2
    /\ out = <<frames[1].payload>>
    /\ wire = <<>>
    /\ sockbuf = EncodeFrame(frames[2])

\* C16: every demultiplexing run over finite input ends: each iteration of
\* the buffered loop that yields moves the cursor on by at least 8, and both
\* generators end when the remote side closes and the consumer keeps pulling.
C16_DemultiplexingEnds ==
    /\ [][(helper = "buffer" /\ Len(out') > Len(out))
            => walker' >= walker + STREAM_HEADER_SIZE_BYTES]_vars
    /\ (helper \in {"buffer", "stream"}) => <>(pc \in {"done", "raised"})

C16_Witness ==
    /\ helper = "stream" /\ status = 200 /\ pc = "done" /\ eof
    /\ Len(out) = MaxFrames
    /\ tail = <<1, 0, 0, 0, 0, 0, 1, 2>>
    /\ sockbuf = <<>>

\* C18: on a chunked response the raw reader never yields an empty element,
\* each element is a whole transfer chunk (its leading byte and the rest),
\* and the elements joined are the bytes of the body read so far, in order.
C18_ChunkedYieldsChunks ==
    (helper = "raw" /\ chunked) =>
        /\ error = "none"
        /\ \A i \in 1..Len(out) : out[i] # <<>>
        /\ Join(out) \o Join(tchunks) = body
        /\ pc = "done" => (tchunks = <<>> /\ Join(out) = body)
        /\ \E n \in 1..MaxChunk : out \o tchunks = SplitEvery(body, n)

C18_Witness ==
    /\ helper = "raw" /\ chunked /\ pc = "done"
    /\ body = <<97, 200, 97>>
    /\ out = <<<<97, 200>>, <<97>>>>

\* the frames with the same payloads on every choice of channels
Retagged(fs) ==
    {[i \in 1..Len(fs) |-> [tag |-> ts[i], payload |-> fs[i].payload]] :
        ts \in [1..Len(fs) -> Tags]}

Channels(fs) == [i \in 1..Len(fs) |-> fs[i].tag]

\* C19, as stated: from the payloads the demultiplexers emit the caller can
\* recover the channel of each frame: frames that differ in a channel tag
\* give different output.
C19_TagRecoverable ==
    (helper \in {"buffer", "stream"} /\ status = 200 /\ tail = <<>>
        /\ NoEmptyFrame /\ pc = "done") =>
        \A g \in Retagged(frames) :
            BufferedRun(Encode(g), 0) = out => Channels(g) = Channels(frames)

\* C19, amended: the demultiplexers read the channel tag and drop it: the
\* elements are the payload bytes alone, the same on every choice of channel
\* tags, so the caller cannot tell the channels apart from them.
C19_TagDropped ==
    (helper \in {"buffer", "stream"} /\ status = 200 /\ tail = <<>>
        /\ NoEmptyFrame /\ pc = "done") =>
        /\ \A g \in Retagged(frames) : BufferedRun(Encode(g), 0) = out
        /\ \A i \in 1..Len(out) : out[i] = frames[i].payload

C19_Witness ==
    /\ BufferedOk /\ tail = <<>> /\ pc = "done"
    /\ Len(frames) = 2
    /\ frames[1].tag = 1 /\ frames[2].tag = 2
    /\ Len(out) = 2
    /\ out[1] # <<>> /\ out[2] # <<>>

\* version v is older than a.b
Below(v, a, b) == v[1] < a \/ (v[1] = a /\ v[2] < b)

RECURSIVE NonEmpty(_)
\* the elements of a list that are not empty
NonEmpty(l) ==
    IF l = <<>> THEN <<>>
    ELSE IF Head(l) = <<>> THEN NonEmpty(Tail(l))
         ELSE <<Head(l)>> \o NonEmpty(Tail(l))

\* C11, as stated: attach below 1.6 hands the response to the chunked raw
\* reader and parses no frame; from 1.6 on a streaming call gets the live
\* demultiplexer and a one-shot call the joined buffered payloads.
C11_AttachByVersionRawReader ==
    op = "attach" =>
        /\ Below(version, 1, 6) => (helper = "raw" /\ parsed = 0)
        /\ ~Below(version, 1, 6) =>
              helper = (IF stream THEN "stream" ELSE "buffer")

\* C11, amended: the version alone decides the strategy of attach: below 1.6
\* no frame is parsed and the chunked raw reader is not used, a streaming
\* call yields the lines of the response that are not empty and a one-shot
\* call returns the body as it is; from 1.6 on a streaming call gets the
\* live demultiplexer and a one-shot call the joined buffered payloads.
C11_AttachByVersion ==
    op = "attach" =>
        /\ Below(version, 1, 6) =>
              /\ parsed = 0
              /\ helper = (IF stream THEN "lines" ELSE "result")
              /\ (~stream /\ pc = "done") => result = body
              /\ (stream /\ pc = "done") =>
                    out = NonEmpty(SplitLines(
                              [i \in 1..Len(body) |->
                                  IF encoding = "utf-8" /\ body[i] >= 128
                                  THEN 65533 ELSE body[i]]))
        /\ ~Below(version, 1, 6) =>
              /\ helper = (IF stream THEN "stream" ELSE "buffer")
              /\ (~stream /\ pc = "done") =>
                    result = Join(Payloads(frames))
              /\ stream => IsPrefix(out, Payloads(frames))

C11_Witness ==
    /\ op = "attach" /\ version = <<1, 10>> /\ stream
    /\ helper = "stream" /\ pc = "done" /\ status = 200
    /\ Len(frames) = 1
    /\ out = <<frames[1].payload>>
    /\ frames[1].payload # <<>>

\* C12: execute below 1.15, stats below 1.17 and rename below 1.17 fail with
\* an invalid-version error before any HTTP request is issued and before a
\* demultiplexer or raw reader exists.
C12_GatesBeforeRequest ==
    (\/ op = "execute" /\ Below(version, 1, 15)
     \/ op = "stats" /\ Below(version, 1, 17)
     \/ op = "rename" /\ Below(version, 1, 17)) =>
        /\ pc = "raised"
        /\ error = "InvalidVersion"
        /\ requests = 0
        /\ helper = "none"
        /\ status = 0
        /\ out = <<>> /\ reads = 0 /\ parsed = 0 /\ pulls = 0

C12_Witness ==
    /\ op = "stats" /\ version = <<1, 16>>
    /\ pc = "raised" /\ error = "InvalidVersion"
    /\ requests = 0

\* C17, as stated: no operation called with a version at or above 1.6
\* returns a sequence of the chunked raw reader.
C17_RawReaderOnlyBeforeMultiplexing ==
    ~Below(version, 1, 6) => helper # "raw"

\* C17, amended: the chunked raw reader is not tied to versions older than
\* multiplexing: attach never returns its sequence, at any version, and
\* stats returns its sequence exactly at versions at or above 1.17.
C17_RawReaderUse ==
    /\ op = "attach" => helper # "raw"
    /\ op = "stats" => (helper = "raw" <=> ~Below(version, 1, 17))
    /\ helper = "raw" => (op = "stats" /\ ~Below(version, 1, 6))

C17_Witness ==
    /\ op = "stats" /\ version = <<1, 17>>
    /\ helper = "raw" /\ chunked /\ pc = "done"
    /\ Len(out) = 2

\* C20, as stated: a login that finds stored credentials for the resolved
\* registry with the requested username, reauth false, issues no request and
\* returns them; otherwise exactly one request is issued, the entry of that
\* registry is replaced by the submitted credentials only on status 200, and
\* on any other status the store is left unchanged and the error is raised.
C20_LoginStoreUnchanged ==
    [][logins' = logins + 1 =>
        LET call == last'
            submitted == [username |-> call.username,
                          password |-> call.password,
                          serveraddress |-> call.registry]
        IN IF call.hit
           THEN /\ requests' = requests
                /\ call.returned.username = call.username
                /\ auth_configs' = auth_configs
           ELSE /\ requests' = requests + 1
                /\ call.status = 200 =>
                      auth_configs' = [auth_configs EXCEPT
                                          ![call.registry] = submitted]
                /\ call.status # 200 =>
                      (auth_configs' = auth_configs /\ call.raised)]_vars

\* C20, amended: each login first reloads the store from the config file
\* (the file at dockercfg_path when one is passed, the default file when the
\* store is empty); a login that then finds credentials for the resolved
\* registry with the requested username, reauth false, issues no request and
\* returns them; otherwise exactly one request is issued, the entry of that
\* registry is replaced by the submitted credentials only on status 200, on
\* any other status the store stays as reloaded, and the error is raised
\* when the status is an error status.
C20_LoginStore ==
    [][logins' = logins + 1 =>
        LET call == last'
            loaded == IF call.path THEN cfgPath
                      ELSE IF auth_configs = NoAuth THEN cfgDefault
                      ELSE auth_configs
            found == loaded[call.registry]
            submitted == [username |-> call.username,
                          password |-> call.password,
                          serveraddress |-> call.registry]
        IN /\ call.hit <=> (/\ found # NoEntry
                            /\ found.username = call.username
                            /\ ~call.reauth)
           /\ IF call.hit
              THEN /\ requests' = requests
                   /\ call.returned = found
                   /\ auth_configs' = loaded
              ELSE /\ requests' = requests + 1
                   /\ call.status = 200 =>
                         /\ auth_configs' = [loaded EXCEPT
                                                ![call.registry] = submitted]
                         /\ ~call.raised
                   /\ call.status # 200 =>
                         /\ auth_configs' = loaded
                         /\ call.raised <=> call.status >= 400]_vars

C20_Witness ==
    /\ op = "login" /\ logins = 2 /\ requests = 1
    /\ cfgDefault = NoAuth
    /\ last.hit /\ ~last.path
    /\ last.registry = "quay"
    /\ last.returned = [username |-> "bob", password |-> "pw1",
                        serveraddress |-> "quay"]

====
